---- MODULE Spec2Model ----
(***************************************************************************)
(* Webhook receiver of src/app.py: verify_signature, the /webhook route    *)
(* (signature check, JSON parse, ownership handshake, relay unwrapping,    *)
(* direct dispatch) and the four event handlers.                           *)
(*                                                                         *)
(* A Python str is a sequence of code points, a bytes object a sequence of *)
(* 0..255.  A Python/JSON value is a tagged record [t, v]:                 *)
(*   "null" (None), "bool", "num", "str", "arr" (list), "obj" (dict, a     *)
(*   function from key strings to values).                                 *)
(***************************************************************************)
EXTENDS Integers, Sequences, FiniteSets, TLC

VARIABLES
    environ,         \* GOOGLE_WEBHOOK_SECRET in the process environment
    SECRET_KEY,      \* app.py:14, read once at import
    pc,              \* position of the /webhook request being served
    request_data,    \* app.py:91, raw body bytes
    signature,       \* app.py:92, X-Goog-Signature header (None when absent)
    data,            \* app.py:103, parsed JSON body
    pending,         \* handler chosen by the router and the payload it gets
    calls,           \* handler invocations of the current request, in order
    response,        \* (status, JSON body) returned by webhook(), None before
    vcall,           \* last direct call verify_signature(body, sig) and its result
    receiver,        \* server_flask.py: RBM_WEBHOOK_SECRET in the environment and
                     \* the request webhook_receiver is serving
    workers          \* app.py: the /webhook requests served at the same time, each
                     \* with its own request context and locals

vars == <<workers, receiver, environ, SECRET_KEY, pc, request_data, signature, data, pending, calls, response, vcall>>

----------------------------------------------------------------------------
(* String literals of the source and of the requests, as code points. *)

s_Invalid_signature == <<73, 110, 118, 97, 108, 105, 100, 32, 115, 105, 103, 110, 97, 116, 117, 114, 101>>  \* "Invalid signature"
s_No_data_received == <<78, 111, 32, 100, 97, 116, 97, 32, 114, 101, 99, 101, 105, 118, 101, 100>>  \* "No data received"
s_Invalid_JSON == <<73, 110, 118, 97, 108, 105, 100, 32, 74, 83, 79, 78>>  \* "Invalid JSON"
s_Internal_server_error == <<73, 110, 116, 101, 114, 110, 97, 108, 32, 115, 101, 114, 118, 101, 114, 32, 101, 114, 114, 111, 114>>  \* "Internal server error"
s_Mensaje_sin_texto == <<77, 101, 110, 115, 97, 106, 101, 32, 115, 105, 110, 32, 116, 101, 120, 116, 111>>  \* "Mensaje sin texto"
s_hola == <<104, 111, 108, 97>>  \* "hola"
s_null == <<110, 117, 108, 108>>  \* "null"
s_true == <<116, 114, 117, 101>>  \* "true"
s_false == <<102, 97, 108, 115, 101>>  \* "false"
s_topsecret == <<116, 111, 112, 115, 101, 99, 114, 101, 116>>  \* "topsecret"
s_abc == <<97, 98, 99>>  \* "abc"
s_xyz == <<120, 121, 122>>  \* "xyz"
s_m1 == <<109, 49>>  \* "m1"
s_t1 == <<116, 49>>  \* "t1"
s_plus1555 == <<43, 49, 53, 53, 53>>  \* "+1555"
s_IMAGE == <<73, 77, 65, 71, 69>>  \* "IMAGE"
s_Hola == <<72, 111, 108, 97>>  \* "Hola"
s_READ == <<82, 69, 65, 68>>  \* "READ"
s_foo == <<102, 111, 111>>  \* "foo"
s_not_json == <<110, 111, 116, 32, 106, 115, 111, 110>>  \* "not json"
s_k2 == <<107, 50>>  \* "k2"
s_enye == <<241>>  \* "ñ", a non-ASCII string
s_Webhook_recibido == <<87, 101, 98, 104, 111, 111, 107, 32, 114, 101, 99, 105, 98, 105, 100, 111, 32, 112, 97, 114, 97, 32, 118, 101, 114, 105, 102, 105, 99, 97, 99, 105, 243, 110>>  \* "Webhook recibido para verificación"
s_Configuracion_incompleta == <<67, 111, 110, 102, 105, 103, 117, 114, 97, 99, 105, 243, 110, 32, 100, 101, 108, 32, 115, 101, 114, 118, 105, 100, 111, 114, 32, 105, 110, 99, 111, 109, 112, 108, 101, 116, 97>>  \* "Configuración del servidor incompleta"
s_Firma_no_proporcionada == <<70, 105, 114, 109, 97, 32, 110, 111, 32, 112, 114, 111, 112, 111, 114, 99, 105, 111, 110, 97, 100, 97>>  \* "Firma no proporcionada"
s_Mensaje_recibido == <<77, 101, 110, 115, 97, 106, 101, 32, 114, 101, 99, 105, 98, 105, 100, 111, 32, 121, 32, 112, 114, 111, 99, 101, 115, 97, 100, 111>>  \* "Mensaje recibido y procesado"
s_Firma_invalida == <<70, 105, 114, 109, 97, 32, 105, 110, 118, 225, 108, 105, 100, 97, 46, 32, 80, 101, 116, 105, 99, 105, 243, 110, 32, 110, 111, 32, 97, 117, 116, 111, 114, 105, 122, 97, 100, 97>>  \* "Firma inválida. Petición no autorizada"
s_clientToken == <<99, 108, 105, 101, 110, 116, 84, 111, 107, 101, 110>>  \* "clientToken"
s_secret == <<115, 101, 99, 114, 101, 116>>  \* "secret"
s_message == <<109, 101, 115, 115, 97, 103, 101>>  \* "message"
s_attributes == <<97, 116, 116, 114, 105, 98, 117, 116, 101, 115>>  \* "attributes"
s_message_type == <<109, 101, 115, 115, 97, 103, 101, 95, 116, 121, 112, 101>>  \* "message_type"
s_data == <<100, 97, 116, 97>>  \* "data"
s_userStatus == <<117, 115, 101, 114, 83, 116, 97, 116, 117, 115>>  \* "userStatus"
s_receipt == <<114, 101, 99, 101, 105, 112, 116>>  \* "receipt"
s_suggestionResponse == <<115, 117, 103, 103, 101, 115, 116, 105, 111, 110, 82, 101, 115, 112, 111, 110, 115, 101>>  \* "suggestionResponse"
s_SUGGESTION_RESPONSE == <<83, 85, 71, 71, 69, 83, 84, 73, 79, 78, 95, 82, 69, 83, 80, 79, 78, 83, 69>>  \* "SUGGESTION_RESPONSE"
s_TEXT == <<84, 69, 88, 84>>  \* "TEXT"
s_textEvent == <<116, 101, 120, 116, 69, 118, 101, 110, 116>>  \* "textEvent"
s_text == <<116, 101, 120, 116>>  \* "text"
s_senderPhoneNumber == <<115, 101, 110, 100, 101, 114, 80, 104, 111, 110, 101, 78, 117, 109, 98, 101, 114>>  \* "senderPhoneNumber"
s_messageId == <<109, 101, 115, 115, 97, 103, 101, 73, 100>>  \* "messageId"
s_sendTime == <<115, 101, 110, 100, 84, 105, 109, 101>>  \* "sendTime"
s_postbackData == <<112, 111, 115, 116, 98, 97, 99, 107, 68, 97, 116, 97>>  \* "postbackData"
s_isTyping == <<105, 115, 84, 121, 112, 105, 110, 103>>  \* "isTyping"
s_receiptType == <<114, 101, 99, 101, 105, 112, 116, 84, 121, 112, 101>>  \* "receiptType"
s_status == <<115, 116, 97, 116, 117, 115>>  \* "status"
s_success == <<115, 117, 99, 99, 101, 115, 115>>  \* "success"
s_error == <<101, 114, 114, 111, 114>>  \* "error"

----------------------------------------------------------------------------
(* Python values. *)

None == [t |-> "null", v |-> 0]
Bool(b) == [t |-> "bool", v |-> b]
Num(n) == [t |-> "num", v |-> n]
Str(s) == [t |-> "str", v |-> s]
Arr(xs) == [t |-> "arr", v |-> xs]

\* A dict from a sequence of <<key, value>> pairs; a repeated key keeps the
\* last value, as a dict literal and json.loads do.
Dict(pairs) ==
    [t |-> "obj",
     v |-> [k \in {pairs[i][1] : i \in DOMAIN pairs} |->
              LET last == CHOOSE i \in DOMAIN pairs :
                              /\ pairs[i][1] = k
                              /\ \A j \in DOMAIN pairs : pairs[j][1] = k => j <= i
              IN  pairs[last][2]]]

EmptyDict == [t |-> "obj", v |-> <<>>]

\* not x
Falsy(x) ==
    CASE x.t = "null" -> TRUE
      [] x.t = "bool" -> ~x.v
      [] x.t = "num"  -> x.v = 0
      [] x.t = "str"  -> x.v = <<>>
      [] x.t = "arr"  -> x.v = <<>>
      [] x.t = "obj"  -> DOMAIN x.v = {}

\* d.get(key, default) on a dict d
Get(d, key, default) == IF key \in DOMAIN d.v THEN d.v[key] ELSE default

\* sub in s, for two str
Contains(s, sub) ==
    \E i \in 0..(Len(s) - Len(sub)) : SubSeq(s, i + 1, i + Len(sub)) = sub

\* key in x, for x of any type; "raise" where Python raises TypeError
In(key, x) ==
    CASE x.t = "obj" -> IF key \in DOMAIN x.v THEN "true" ELSE "false"
      [] x.t = "str" -> IF Contains(x.v, key) THEN "true" ELSE "false"
      [] x.t = "arr" -> IF \E i \in DOMAIN x.v : x.v[i] = Str(key) THEN "true" ELSE "false"
      [] OTHER       -> "raise"

IsAscii(s) == \A i \in DOMAIN s : s[i] < 128

\* str.encode('utf-8'), for code points below 0x800
RECURSIVE encode_utf8(_)
encode_utf8(s) ==
    IF IsAscii(s) THEN s
    ELSE LET c == Head(s) IN
         (IF c < 128 THEN <<c>> ELSE <<192 + (c \div 64), 128 + (c % 64)>>)
         \o encode_utf8(Tail(s))

\* bytes.decode('utf-8'): [ok, s]; ok is FALSE where Python raises
\* UnicodeDecodeError (sequences longer than two bytes are not modelled and
\* are reported as errors)
RECURSIVE decode_utf8(_)
decode_utf8(b) ==
    IF IsAscii(b) THEN [ok |-> TRUE, s |-> b]
    ELSE LET c == Head(b) IN
         IF c < 128
         THEN LET r == decode_utf8(Tail(b)) IN [ok |-> r.ok, s |-> <<c>> \o r.s]
         ELSE IF c >= 194 /\ c < 224 /\ Len(b) >= 2 /\ b[2] >= 128 /\ b[2] < 192
         THEN LET r == decode_utf8(SubSeq(b, 3, Len(b))) IN
              [ok |-> r.ok, s |-> <<(c - 192) * 64 + (b[2] - 128)>> \o r.s]
         ELSE [ok |-> FALSE, s |-> <<>>]

IsSpace(c) == c \in {32, 9, 10, 11, 12, 13}

\* str.strip()
RECURSIVE lstrip(_)
lstrip(s) == IF s # <<>> /\ IsSpace(Head(s)) THEN lstrip(Tail(s)) ELSE s

RECURSIVE rstrip(_)
rstrip(s) == IF s # <<>> /\ IsSpace(s[Len(s)]) THEN rstrip(SubSeq(s, 1, Len(s) - 1)) ELSE s

strip(s) == rstrip(lstrip(s))

----------------------------------------------------------------------------
(* hmac and base64 *)

DigestSize == 64     \* hashlib.sha512: 64-byte digest
MAXBINSIZE == 57     \* base64.encodebytes: 57 input bytes per output line

\* Stand-in for hmac.new(key, msg, hashlib.sha512).digest(): a deterministic
\* function of (key, msg) yielding DigestSize bytes.  The claims use only
\* that it is a function and the length of its result.
RECURSIVE Absorb(_, _, _)
Absorb(bytes, lo, hi) ==
    IF lo > hi THEN 0
    ELSE IF lo = hi THEN (bytes[lo] + 1) * (lo + 30)
    ELSE LET mid == (lo + hi) \div 2 IN
         (Absorb(bytes, lo, mid) + Absorb(bytes, mid + 1, hi)) % 65521

hmac_sha512_digest(key, msg) ==
    LET k == Absorb(key, 1, Len(key))
        m == (Absorb(msg, 1, Len(msg)) + 257 * k + Len(msg)) % 65521
    IN  [i \in 1..DigestSize |-> ((((m + 1) * (((i * 31 + k) % 30011) + 1)) % 65521) \div 7) % 256]

\* The base64 alphabet: A-Z a-z 0-9 + /
B64Char(n) ==
    IF n < 26 THEN 65 + n
    ELSE IF n < 52 THEN 71 + n
    ELSE IF n < 62 THEN n - 4
    ELSE IF n = 62 THEN 43 ELSE 47

\* binascii.b2a_base64 without the trailing newline: every 3 bytes give 4
\* characters, a final group of 1 or 2 bytes is padded with "="
b64_line(b) ==
    LET n == Len(b)
        byte(k) == IF k <= n THEN b[k] ELSE 0
    IN  [j \in 1..(4 * ((n + 2) \div 3)) |->
            LET g == 3 * ((j - 1) \div 4)
                r == (j - 1) % 4
            IN  CASE r = 0 -> B64Char(byte(g + 1) \div 4)
                  [] r = 1 -> B64Char((byte(g + 1) % 4) * 16 + byte(g + 2) \div 16)
                  [] r = 2 -> IF g + 2 > n THEN 61
                              ELSE B64Char((byte(g + 2) % 16) * 4 + byte(g + 3) \div 64)
                  [] r = 3 -> IF g + 3 > n THEN 61 ELSE B64Char(byte(g + 3) % 64)]

\* base64.b64encode: one line, padded
b64encode(b) == b64_line(b)

\* base64.encodebytes: b2a_base64 of each MAXBINSIZE-byte chunk, every chunk
\* followed by a newline
RECURSIVE encodebytes(_)
encodebytes(b) ==
    IF b = <<>> THEN <<>>
    ELSE IF Len(b) <= MAXBINSIZE THEN b64_line(b) \o <<10>>
    ELSE b64_line(SubSeq(b, 1, MAXBINSIZE)) \o <<10>>
         \o encodebytes(SubSeq(b, MAXBINSIZE + 1, Len(b)))

\* hmac.compare_digest(a, b) on two str: "raise" (TypeError) when either
\* holds a non-ASCII character
compare_digest(a, b) ==
    IF ~IsAscii(a) \/ ~IsAscii(b) THEN "raise"
    ELSE IF a = b THEN "true" ELSE "false"

\* Value of a base64 character, 64 for a character outside the alphabet
B64Val(c) ==
    IF c >= 65 /\ c <= 90 THEN c - 65
    ELSE IF c >= 97 /\ c <= 122 THEN c - 71
    ELSE IF c >= 48 /\ c <= 57 THEN c + 4
    ELSE IF c = 43 THEN 62
    ELSE IF c = 47 THEN 63 ELSE 64

Min(S) == CHOOSE m \in S : \A k \in S : m <= k

\* binascii.a2b_base64, non-strict: characters outside the alphabet are
\* skipped; "=" after 3 data characters of a quad, or "==" after 2, ends the
\* input, any other "=" is skipped; an incomplete final quad raises
\* binascii.Error.  [ok, b]
a2b_base64(s) ==
    LET t == SelectSeq(s, LAMBDA c : c = 61 \/ B64Val(c) < 64)
        pad == {j \in DOMAIN t : t[j] = 61}
        quad_pos(j) == (j - 1 - Cardinality({e \in pad : e < j})) % 4
        done == {j \in pad : \/ quad_pos(j) = 3
                             \/ quad_pos(j) = 2 /\ (j - 1) \in pad}
        used == IF done = {} THEN t ELSE SubSeq(t, 1, Min(done) - 1)
        d == SelectSeq(used, LAMBDA c : c # 61)
        val(k) == B64Val(d[k])
    IN  IF done = {} /\ Len(d) % 4 # 0 THEN [ok |-> FALSE, b |-> <<>>]
        ELSE [ok |-> TRUE,
              b |-> [k \in 1..((Len(d) * 3) \div 4) |->
                       LET g == 4 * ((k - 1) \div 3)
                           r == (k - 1) % 3
                       IN  CASE r = 0 -> val(g + 1) * 4 + val(g + 2) \div 16
                             [] r = 1 -> (val(g + 2) % 16) * 16 + val(g + 3) \div 4
                             [] r = 2 -> (val(g + 3) % 4) * 64 + val(g + 4)]]

\* base64.b64decode(x) for a Python value x: [ok, b]; ok is FALSE where it
\* raises (TypeError for a non-str, ValueError for a non-ASCII str,
\* binascii.Error for bad padding)
b64decode(x) ==
    IF x.t # "str" \/ ~IsAscii(x.v) THEN [ok |-> FALSE, b |-> <<>>]
    ELSE a2b_base64(x.v)

----------------------------------------------------------------------------
(* json *)

RECURSIVE Digits(_)
Digits(n) == IF n < 10 THEN <<48 + n>> ELSE Digits(n \div 10) \o <<48 + (n % 10)>>

\* json.dumps(x, separators=(',', ':')) as the sending platform produces it;
\* strings of the model hold no character that needs escaping
RECURSIVE json_dumps(_)
RECURSIVE dumps_members(_, _)
RECURSIVE dumps_elements(_)
json_dumps(x) ==
    CASE x.t = "null" -> s_null
      [] x.t = "bool" -> IF x.v THEN s_true ELSE s_false
      [] x.t = "num"  -> IF x.v < 0 THEN <<45>> \o Digits(0 - x.v) ELSE Digits(x.v)
      [] x.t = "str"  -> <<34>> \o x.v \o <<34>>
      [] x.t = "arr"  -> <<91>> \o dumps_elements(x.v) \o <<93>>
      [] x.t = "obj"  -> <<123>> \o dumps_members(x.v, DOMAIN x.v) \o <<125>>
dumps_members(f, keys) ==
    IF keys = {} THEN <<>>
    ELSE LET k == CHOOSE k \in keys : TRUE IN
         <<34>> \o k \o <<34, 58>> \o json_dumps(f[k])
         \o (IF keys = {k} THEN <<>> ELSE <<44>> \o dumps_members(f, keys \ {k}))
dumps_elements(xs) ==
    IF xs = <<>> THEN <<>>
    ELSE json_dumps(Head(xs))
         \o (IF Len(xs) = 1 THEN <<>> ELSE <<44>> \o dumps_elements(Tail(xs)))

JFail == [ok |-> FALSE, val |-> None, i |-> 0]
JOk(val, i) == [ok |-> TRUE, val |-> val, i |-> i]

RECURSIVE SkipWs(_, _)
SkipWs(s, i) == IF i <= Len(s) /\ s[i] \in {32, 9, 10, 13} THEN SkipWs(s, i + 1) ELSE i

Unescape(c) ==
    CASE c = 34 -> 34 [] c = 92 -> 92 [] c = 47 -> 47 [] c = 98 -> 8
      [] c = 102 -> 12 [] c = 110 -> 10 [] c = 114 -> 13 [] c = 116 -> 9
      [] OTHER -> 0 - 1

\* a JSON string from the character after its opening quote: up to the
\* closing quote, a backslash escape or a control character, whichever comes
\* first (\u escapes are not modelled and are reported as errors)
RECURSIVE ScanString(_, _, _)
ScanString(s, i, acc) ==
    LET stops == {j \in i..Len(s) : s[j] = 34 \/ s[j] = 92 \/ s[j] < 32} IN
    IF stops = {} THEN JFail
    ELSE LET j == Min(stops)
             chunk == acc \o SubSeq(s, i, j - 1)
         IN  IF s[j] = 34 THEN JOk(Str(chunk), j + 1)
             ELSE IF s[j] # 92 \/ j + 1 > Len(s) \/ Unescape(s[j + 1]) < 0 THEN JFail
             ELSE ScanString(s, j + 2, Append(chunk, Unescape(s[j + 1])))

IsDigit(c) == c >= 48 /\ c <= 57

RECURSIVE ScanDigits(_, _, _)
ScanDigits(s, i, acc) ==
    IF i <= Len(s) /\ IsDigit(s[i]) THEN ScanDigits(s, i + 1, acc * 10 + (s[i] - 48))
    ELSE [n |-> acc, i |-> i]

\* a JSON integer at i (fractions and exponents are not modelled)
ScanNumber(s, i) ==
    LET neg == s[i] = 45
        j == IF neg THEN i + 1 ELSE i
    IN  IF j > Len(s) \/ ~IsDigit(s[j]) THEN JFail
        ELSE IF s[j] = 48 THEN JOk(Num(0), j + 1)
        ELSE LET r == ScanDigits(s, j, 0) IN
             JOk(Num(IF neg THEN 0 - r.n ELSE r.n), r.i)

StartsWith(s, i, lit) == i + Len(lit) - 1 <= Len(s) /\ SubSeq(s, i, i + Len(lit) - 1) = lit

\* json.JSONDecoder.raw_decode: the value starting at i
RECURSIVE ScanValue(_, _)
RECURSIVE ScanMembers(_, _, _)
RECURSIVE ScanElements(_, _, _)
ScanValue(s, i) ==
    IF i > Len(s) THEN JFail
    ELSE CASE s[i] = 34 -> ScanString(s, i + 1, <<>>)
           [] s[i] = 123 ->
                LET j == SkipWs(s, i + 1) IN
                IF j <= Len(s) /\ s[j] = 125 THEN JOk(EmptyDict, j + 1)
                ELSE ScanMembers(s, j, <<>>)
           [] s[i] = 91 ->
                LET j == SkipWs(s, i + 1) IN
                IF j <= Len(s) /\ s[j] = 93 THEN JOk(Arr(<<>>), j + 1)
                ELSE ScanElements(s, j, <<>>)
           [] StartsWith(s, i, s_null) -> JOk(None, i + 4)
           [] StartsWith(s, i, s_true) -> JOk(Bool(TRUE), i + 4)
           [] StartsWith(s, i, s_false) -> JOk(Bool(FALSE), i + 5)
           [] s[i] = 45 \/ IsDigit(s[i]) -> ScanNumber(s, i)
           [] OTHER -> JFail
\* members of an object from the opening quote of a key
ScanMembers(s, i, pairs) ==
    IF i > Len(s) \/ s[i] # 34 THEN JFail
    ELSE LET k == ScanString(s, i + 1, <<>>) IN
         IF ~k.ok THEN JFail
         ELSE LET c == SkipWs(s, k.i) IN
              IF c > Len(s) \/ s[c] # 58 THEN JFail
              ELSE LET val == ScanValue(s, SkipWs(s, c + 1)) IN
                   IF ~val.ok THEN JFail
                   ELSE LET e == SkipWs(s, val.i)
                            acc == Append(pairs, <<k.val.v, val.val>>)
                        IN  IF e > Len(s) THEN JFail
                            ELSE IF s[e] = 125 THEN JOk(Dict(acc), e + 1)
                            ELSE IF s[e] = 44 THEN ScanMembers(s, SkipWs(s, e + 1), acc)
                            ELSE JFail
ScanElements(s, i, xs) ==
    LET val == ScanValue(s, i) IN
    IF ~val.ok THEN JFail
    ELSE LET e == SkipWs(s, val.i)
             acc == Append(xs, val.val)
         IN  IF e > Len(s) THEN JFail
             ELSE IF s[e] = 93 THEN JOk(Arr(acc), e + 1)
             ELSE IF s[e] = 44 THEN ScanElements(s, SkipWs(s, e + 1), acc)
             ELSE JFail

\* json.loads(s) for a str s: [ok, val]; ok is FALSE where it raises
\* json.JSONDecodeError
json_loads(s) ==
    LET r == ScanValue(s, SkipWs(s, 1)) IN
    IF r.ok /\ SkipWs(s, r.i) = Len(s) + 1 THEN [ok |-> TRUE, val |-> r.val]
    ELSE [ok |-> FALSE, val |-> None]

----------------------------------------------------------------------------
(* verify_signature *)

\* app.py:39-46
expected_signature_b64(request_data_) ==
    strip(encodebytes(hmac_sha512_digest(encode_utf8(SECRET_KEY), request_data_)))

\* verify_signature letting a request without the header through
verify_signature_FailOpen(request_data_, signature_header) ==
    IF SECRET_KEY = <<>> THEN TRUE
    ELSE IF Falsy(signature_header) THEN TRUE
    ELSE LET is_valid == compare_digest(expected_signature_b64(request_data_),
                                        signature_header.v)
         IN  IF is_valid = "raise" THEN FALSE ELSE is_valid = "true"

\* verify_signature testing the header before the secret
verify_signature_HeaderFirst(request_data_, signature_header) ==
    IF Falsy(signature_header) THEN FALSE
    ELSE IF SECRET_KEY = <<>> THEN TRUE
    ELSE LET is_valid == compare_digest(expected_signature_b64(request_data_),
                                        signature_header.v)
         IN  IF is_valid = "raise" THEN FALSE ELSE is_valid = "true"

\* app.py:23-60
verify_signature(request_data_, signature_header) ==
    IF SECRET_KEY = <<>> THEN TRUE
    ELSE IF Falsy(signature_header) THEN FALSE
    ELSE LET is_valid == compare_digest(expected_signature_b64(request_data_),
                                        signature_header.v)
         IN  IF is_valid = "raise" THEN FALSE ELSE is_valid = "true"

----------------------------------------------------------------------------
(* Handlers.  Each yields [raised, text]: raised is TRUE where the Python   *)
(* code raises (AttributeError on .get or .lower of a value of the wrong   *)
(* type); text is the text_content handle_message ends with.               *)

Returned(text) == [raised |-> FALSE, text |-> text]
Raised == [raised |-> TRUE, text |-> None]

\* app.py:209-243
handle_message(d) ==
    IF d.t # "obj" THEN Raised
    ELSE LET message_content == Get(d, s_textEvent, EmptyDict) IN
         IF message_content.t # "obj" THEN Raised
         ELSE LET nested == Get(message_content, s_text, None)
                  text_content == IF Falsy(nested)
                                  THEN Get(d, s_text, Str(s_Mensaje_sin_texto))
                                  ELSE nested
              IN  IF text_content.t # "str" THEN Raised ELSE Returned(text_content)

\* app.py:249-271
handle_suggestion_response(d) ==
    IF d.t # "obj" THEN Raised
    ELSE IF Get(d, s_suggestionResponse, EmptyDict).t # "obj" THEN Raised
    ELSE Returned(None)

\* app.py:277-282
handle_user_status(d) ==
    IF d.t # "obj" THEN Raised
    ELSE IF Get(d, s_userStatus, EmptyDict).t # "obj" THEN Raised
    ELSE Returned(None)

\* app.py:284-289
handle_receipt(d) ==
    IF d.t # "obj" THEN Raised
    ELSE IF Get(d, s_receipt, EmptyDict).t # "obj" THEN Raised
    ELSE Returned(None)

Invoke(handler, payload) ==
    CASE handler = "handle_message" -> handle_message(payload)
      [] handler = "handle_suggestion_response" -> handle_suggestion_response(payload)
      [] handler = "handle_user_status" -> handle_user_status(payload)
      [] handler = "handle_receipt" -> handle_receipt(payload)

----------------------------------------------------------------------------
(* The router of webhook(), app.py:116-170 *)

\* app.py:190-203, for a dict
detect_event_type(d) ==
    IF s_message \in DOMAIN d.v THEN "message"
    ELSE IF s_userStatus \in DOMAIN d.v THEN "userStatus"
    ELSE IF s_receipt \in DOMAIN d.v THEN "receipt"
    ELSE IF s_suggestionResponse \in DOMAIN d.v THEN "suggestionResponse"
    ELSE "unknown"

\* Outcomes of the router
RouteRaise(exc) == [kind |-> exc, handler |-> "", payload |-> None]
RouteReply(body) == [kind |-> "reply", handler |-> "", payload |-> body]
RouteCall(handler, payload) == [kind |-> "call", handler |-> handler, payload |-> payload]
RouteNothing == [kind |-> "nothing", handler |-> "", payload |-> None]

\* The handshake test placed after the test for a message
IsHandshake_AfterMessage(d) ==
    LET m == In(s_message, d)
        a == In(s_clientToken, d)
    IN  IF m # "false" THEN (IF m = "true" THEN "false" ELSE m)
        ELSE IF a # "true" THEN a ELSE In(s_secret, d)

\* app.py:117: 'clientToken' in data and 'secret' in data
IsHandshake(d) ==
    LET a == In(s_clientToken, d) IN
    IF a # "true" THEN a ELSE In(s_secret, d)

\* The handshake reply echoing the clientToken
HandshakeReply_EchoToken(d) ==
    IF d.t # "obj" THEN RouteRaise("Exception")
    ELSE RouteReply(Dict(<<<<s_secret, Get(d, s_clientToken, None)>>>>))

\* app.py:119-122: the handshake reply, jsonify({'secret': data.get('secret')})
HandshakeReply(d) ==
    IF d.t # "obj" THEN RouteRaise("Exception")
    ELSE RouteReply(Dict(<<<<s_secret, Get(d, s_secret, None)>>>>))

\* app.py:146-153 without the TEXT branch (app.py:148-149)
RelayDispatch_NoText(message_type, real_data) ==
    IF message_type = Str(s_SUGGESTION_RESPONSE)
    THEN RouteCall("handle_suggestion_response", real_data)
    ELSE IF message_type = Str(s_message) THEN RouteCall("handle_message", real_data)
    ELSE RouteNothing

\* app.py:146-153
RelayDispatch(message_type, real_data) ==
    IF message_type = Str(s_SUGGESTION_RESPONSE)
    THEN RouteCall("handle_suggestion_response", real_data)
    ELSE IF message_type = Str(s_TEXT) THEN RouteCall("handle_message", real_data)
    ELSE IF message_type = Str(s_message) THEN RouteCall("handle_message", real_data)
    ELSE RouteNothing

\* app.py:130-153
Unwrap(message_data, attributes) ==
    LET encoded_data == Get(message_data, s_data, Str(<<>>))
        decoded_bytes == b64decode(encoded_data)
        text == decode_utf8(decoded_bytes.b)
        real_data == json_loads(text.s)
    IN  IF ~decoded_bytes.ok \/ ~text.ok THEN RouteRaise("Exception")
        ELSE IF ~real_data.ok THEN RouteRaise("JSONDecodeError")
        ELSE IF attributes.t # "obj" THEN RouteRaise("Exception")
        ELSE RelayDispatch(Get(attributes, s_message_type, None), real_data.val)

\* app.py:160-170
DirectDispatch(d) ==
    LET event_type == detect_event_type(d) IN
    IF event_type = "message" THEN RouteCall("handle_message", d)
    ELSE IF event_type = "userStatus" THEN RouteCall("handle_user_status", d)
    ELSE IF event_type = "receipt" THEN RouteCall("handle_receipt", d)
    ELSE RouteNothing

\* app.py:117-170 for the parsed body d
Router(d) ==
    LET hs == IsHandshake(d) IN
    IF hs = "raise" THEN RouteRaise("Exception")
    ELSE IF hs = "true" THEN HandshakeReply(d)
    ELSE IF d.t # "obj" THEN RouteRaise("Exception")
    ELSE LET message_data == Get(d, s_message, EmptyDict) IN
         IF message_data.t # "obj" THEN RouteRaise("Exception")
         ELSE LET attributes == Get(message_data, s_attributes, EmptyDict)
                  relay == IF Falsy(attributes) THEN "false"
                           ELSE In(s_message_type, attributes)
              IN  IF relay = "raise" THEN RouteRaise("Exception")
                  ELSE IF relay = "true" THEN Unwrap(message_data, attributes)
                  ELSE DirectDispatch(d)

\* flask request.get_json() for a request sent as application/json: the
\* parsed body, or [ok |-> FALSE] where it raises werkzeug BadRequest
get_json(body) ==
    LET text == decode_utf8(body) IN
    IF ~text.ok THEN [ok |-> FALSE, val |-> None] ELSE json_loads(text.s)

\* The responses of webhook()
NoResponse == [status |-> 0, body |-> None]
Response(status, body) == [status |-> status, body |-> body]
InvalidSignature == Response(401, Dict(<<<<s_error, Str(s_Invalid_signature)>>>>))
NoDataReceived == Response(400, Dict(<<<<s_error, Str(s_No_data_received)>>>>))
InvalidJSON == Response(400, Dict(<<<<s_error, Str(s_Invalid_JSON)>>>>))
InternalServerError == Response(500, Dict(<<<<s_error, Str(s_Internal_server_error)>>>>))
Success == Response(200, Dict(<<<<s_status, Str(s_success)>>>>))

\* app.py:181-187: the response of the except clause that catches exc
Caught(exc) == IF exc = "JSONDecodeError" THEN InvalidJSON ELSE InternalServerError

----------------------------------------------------------------------------
(* The environment: configuration, request bodies and signature headers. *)

\* GOOGLE_WEBHOOK_SECRET in the process environment (None: not set)
Environment == {None, Str(<<>>), Str(s_topsecret), Str(s_k2)}

\* app.py:14: os.getenv(name, default)
getenv(value, default) == IF value = None THEN default ELSE value.v

\* Numbers in the sub-fields of a payload range over 0..MaxNum
MaxNum == 1

EventKeys == {s_message, s_userStatus, s_receipt, s_suggestionResponse}

\* {"clientToken":"abc","secret":"xyz"}
Handshake == Dict(<<<<s_clientToken, Str(s_abc)>>, <<s_secret, Str(s_xyz)>>>>)

\* d with the members of e added (e wins on a shared key)
Merge(d, e) ==
    [t |-> "obj",
     v |-> [k \in DOMAIN d.v \cup DOMAIN e.v |->
              IF k \in DOMAIN e.v THEN e.v[k] ELSE d.v[k]]]

\* Direct events: every combination of the four event keys, each holding {}
KeyPayloads == {[t |-> "obj", v |-> [k \in K |-> EmptyDict]] : K \in SUBSET EventKeys}

\* Scenario A of the specification
ScenarioA ==
    Dict(<<<<s_message, Dict(<<<<s_messageId, Str(s_m1)>>, <<s_text, Str(s_hola)>>>>)>>,
           <<s_senderPhoneNumber, Str(s_plus1555)>>,
           <<s_sendTime, Str(s_t1)>>>>)

\* Direct events whose sub-fields vary in place and in type
FieldPayloads ==
    { ScenarioA,
      Dict(<<<<s_message, EmptyDict>>, <<s_text, Str(s_Hola)>>>>),
      Dict(<<<<s_message, EmptyDict>>, <<s_textEvent, Dict(<<<<s_text, Str(s_hola)>>>>)>>,
             <<s_text, Str(s_Hola)>>>>),
      Dict(<<<<s_message, EmptyDict>>, <<s_textEvent, Str(s_hola)>>>>),
      Dict(<<<<s_message, Str(s_hola)>>>>),
      Dict(<<<<s_message, Dict(<<<<s_attributes, Str(s_message_type)>>>>)>>>>),
      Dict(<<<<s_userStatus, Dict(<<<<s_isTyping, Bool(TRUE)>>>>)>>>>),
      Dict(<<<<s_userStatus, Num(5)>>>>),
      Dict(<<<<s_receipt, Dict(<<<<s_messageId, Str(s_m1)>>, <<s_receiptType, Str(s_READ)>>>>)>>>>),
      Dict(<<<<s_receipt, Str(s_READ)>>>>),
      Dict(<<<<s_suggestionResponse, Dict(<<<<s_postbackData, Str(s_abc)>>>>)>>>>),
      Dict(<<<<s_foo, Num(1)>>>>),
      Dict(<<<<s_clientToken, Str(s_abc)>>>>),
      Dict(<<<<s_secret, Str(s_xyz)>>, <<s_message, EmptyDict>>>>),
      Dict(<<<<s_clientToken, Num(7)>>, <<s_secret, Dict(<<<<s_foo, None>>>>)>>>>) }
    \cup {Dict(<<<<s_message, EmptyDict>>, <<s_text, Num(n)>>>>) : n \in 0..MaxNum}
    \cup {Dict(<<<<s_message, EmptyDict>>, <<s_textEvent, Dict(<<<<s_text, Num(n)>>>>)>>,
                  <<s_text, Str(s_Hola)>>>>) : n \in 0..MaxNum}

\* Payloads carried inside a relay envelope
InnerPayloads ==
    { EmptyDict,
      Dict(<<<<s_text, Str(s_hola)>>>>),
      Dict(<<<<s_textEvent, Dict(<<<<s_text, Str(s_Hola)>>>>)>>, <<s_senderPhoneNumber, Str(s_plus1555)>>>>),
      Dict(<<<<s_textEvent, Str(s_hola)>>>>),
      Dict(<<<<s_suggestionResponse, Dict(<<<<s_postbackData, Str(s_abc)>>>>)>>>>),
      Dict(<<<<s_suggestionResponse, Num(5)>>>>) }
    \cup {Dict(<<<<s_text, Num(n)>>>>) : n \in 0..MaxNum}

MessageTypes == {Str(s_TEXT), Str(s_message), Str(s_SUGGESTION_RESPONSE), Str(s_IMAGE)}

\* {message: {data: <data>, attributes: {message_type: <mt>}}}
Envelope(encoded, mt) ==
    Dict(<<<<s_message, Dict(<<<<s_data, encoded>>,
                              <<s_attributes, Dict(<<<<s_message_type, mt>>>>)>>>>)>>>>)

\* base64(json(I)) as the relay produces it
Wrapped(inner) == Str(b64encode(encode_utf8(json_dumps(inner))))

RelayPayloads == {Envelope(Wrapped(i), mt) : i \in InnerPayloads, mt \in MessageTypes}

\* Relay envelopes whose data field is not the base64 of a JSON object
BrokenRelayPayloads ==
    { Envelope(Str(<<84, 81, 61>>), Str(s_TEXT)),                       \* bad padding
      Envelope(Str(b64encode(s_not_json)), Str(s_TEXT)),                \* not JSON
      Envelope(Str(b64encode(<<53>>)), Str(s_TEXT)),                    \* the number 5
      Envelope(Num(5), Str(s_IMAGE)),                                   \* not a string
      Envelope(Str(b64encode(<<255>>)), Str(s_IMAGE)),                  \* not UTF-8
      Envelope(Str(b64encode(s_not_json)), Str(s_IMAGE)),               \* not JSON
      Dict(<<<<s_message, Dict(<<<<s_attributes,
                                   Dict(<<<<s_message_type, Str(s_TEXT)>>>>)>>>>)>>>>),
      Dict(<<<<s_message, Dict(<<<<s_data, Wrapped(EmptyDict)>>,
                                 <<s_attributes, Arr(<<Str(s_message_type)>>)>>>>)>>>>) }

\* The handshake together with other keys
HandshakePayloads ==
    {Merge(p, Handshake) : p \in KeyPayloads}
    \cup {Merge(Envelope(Wrapped(Dict(<<<<s_text, Str(s_hola)>>>>)), Str(s_TEXT)), Handshake)}

ObjectPayloads ==
    KeyPayloads \cup FieldPayloads \cup RelayPayloads \cup BrokenRelayPayloads
    \cup HandshakePayloads

\* JSON documents that are not objects
OtherJson == {None, Num(0), Num(5), Bool(TRUE), Str(s_clientToken \o s_secret),
              Arr(<<>>), Arr(<<Str(s_clientToken), Str(s_secret)>>), Arr(<<Num(1)>>)}

\* Request bodies: JSON objects, other JSON documents, and bodies that are
\* not JSON
Bodies ==
    {encode_utf8(json_dumps(p)) : p \in ObjectPayloads \cup OtherJson}
    \cup {<<>>, s_not_json, <<123>>, <<255>>}

\* Secrets the sender may sign with
SenderSecrets == {s_topsecret, s_k2}

\* mac(S, B): HMAC-SHA512 of B keyed by S, base64 on one line with padding
Mac(S, B) == b64encode(hmac_sha512_digest(encode_utf8(S), B))

\* Values of the X-Goog-Signature header: absent, empty, a wrong value, a
\* non-ASCII value, and the sender's mac of the body.  A header value holds
\* no newline: a folded header line reaches the application with the
\* whitespace that starts its continuation.
Headers(body) ==
    {None, Str(<<>>), Str(s_abc), Str(s_enye)}
    \cup {Str(Mac(S, body)) : S \in SenderSecrets}

Requests == UNION {{[body |-> b, sig |-> h] : h \in Headers(b)} : b \in Bodies}

\* mac(S, B) as base64.encodebytes(...).strip() writes it: a newline after
\* the 76th character
MimeMac(S, B) == strip(encodebytes(hmac_sha512_digest(encode_utf8(S), B)))

\* Arguments of a direct call verify_signature(body, sig): any header value,
\* and also strings no HTTP header can hold
VerifyCalls ==
    Requests
    \cup UNION {{[body |-> b, sig |-> Str(MimeMac(S, b))] : S \in SenderSecrets} : b \in Bodies}

----------------------------------------------------------------------------
(* The strict variant, src/server_flask.py *)

Sha256Size == 32     \* bytes in a SHA-256 digest

\* Stand-in for hmac.new(key, msg, hashlib.sha256).digest(): a deterministic
\* function of (key, msg) yielding Sha256Size bytes
hmac_sha256_digest(key, msg) ==
    LET k == Absorb(key, 1, Len(key))
        m == (Absorb(msg, 1, Len(msg)) + 263 * k + Len(msg)) % 65521
    IN  [i \in 1..Sha256Size |-> ((((m + 1) * (((i * 37 + k) % 30011) + 1)) % 65521) \div 5) % 256]

\* The hexadecimal digits 0-9 a-f
HexChar(n) == IF n < 10 THEN 48 + n ELSE 87 + n

\* HMAC.hexdigest(): two lower-case hexadecimal digits per byte
hexdigest(b) ==
    [i \in 1..(2 * Len(b)) |->
        IF i % 2 = 1 THEN HexChar(b[(i + 1) \div 2] \div 16)
        ELSE HexChar(b[i \div 2] % 16)]

\* server_flask.py:38-74; "raise" where hmac.compare_digest raises TypeError,
\* which nothing catches
is_valid_signature(request_body, secret, signature_to_verify) ==
    IF Falsy(secret) \/ Falsy(signature_to_verify) THEN "false"
    ELSE LET request_body_bytes == encode_utf8(request_body)
             secret_bytes == encode_utf8(secret.v)
             calculated_signature == hexdigest(hmac_sha256_digest(secret_bytes, request_body_bytes))
         IN  compare_digest(calculated_signature, signature_to_verify.v)

\* The responses of webhook_receiver(); Flask itself answers a BadRequest
\* raised by get_json with a 400 page and any other exception with a 500
\* page, neither of them JSON
VerificationReceived == Response(200, Dict(<<<<s_status, Str(s_Webhook_recibido)>>>>))
IncompleteConfiguration == Response(500, Dict(<<<<s_error, Str(s_Configuracion_incompleta)>>>>))
SignatureMissing == Response(403, Dict(<<<<s_error, Str(s_Firma_no_proporcionada)>>>>))
MessageProcessed == Response(200, Dict(<<<<s_status, Str(s_Mensaje_recibido)>>>>))
SignatureInvalid == Response(403, Dict(<<<<s_error, Str(s_Firma_invalida)>>>>))
BadRequestPage == Response(400, None)
ServerErrorPage == Response(500, None)

\* server_flask.py:81-153 for the raw body, the X-Goog-Signature header and
\* the value of RBM_WEBHOOK_SECRET in the environment
webhook_receiver(body, header, webhook_secret) ==
    LET parsed == get_json(body) IN
    IF ~parsed.ok THEN BadRequestPage
    ELSE LET token == IF Falsy(parsed.val) THEN "false"
                      ELSE In(s_clientToken, parsed.val)
         IN  IF token = "raise" THEN ServerErrorPage
             ELSE IF token = "true" THEN VerificationReceived
             ELSE IF Falsy(webhook_secret) THEN IncompleteConfiguration
             ELSE IF Falsy(header) THEN SignatureMissing
             ELSE LET request_body == decode_utf8(body) IN
                  IF ~request_body.ok THEN ServerErrorPage
                  ELSE LET valid == is_valid_signature(request_body.s, webhook_secret, header)
                       IN  IF valid = "raise" THEN ServerErrorPage
                           ELSE IF valid = "true" THEN MessageProcessed
                           ELSE SignatureInvalid

\* The hex HMAC-SHA256 of body B keyed by S, as the sender computes it
HexMac(S, B) == hexdigest(hmac_sha256_digest(encode_utf8(S), B))

\* Bodies sent to the strict variant: handshakes, events, JSON documents
\* that are not objects, and bodies that are not JSON
StrictBodies ==
    {encode_utf8(json_dumps(p)) :
        p \in {Handshake, Dict(<<<<s_clientToken, Str(s_abc)>>>>), ScenarioA, EmptyDict,
               Dict(<<<<s_text, Str(s_clientToken)>>>>), Dict(<<<<s_foo, Num(1)>>>>),
               Envelope(Wrapped(EmptyDict), Str(s_TEXT))}
           \cup OtherJson \cup {Arr(<<Str(s_clientToken)>>)}}
    \cup {<<>>, s_not_json, <<255>>}

\* X-Goog-Signature as the strict variant may receive it: absent, empty, a
\* wrong value, a non-ASCII value, and the sender's hex mac of the body
StrictHeaders(body) ==
    {None, Str(<<>>), Str(s_abc), Str(s_enye)}
    \cup {Str(HexMac(S, body)) : S \in SenderSecrets}

StrictRequests ==
    UNION {{[body |-> b, sig |-> h] : h \in StrictHeaders(b)} : b \in StrictBodies}

\* No request is being served by webhook_receiver
ReceiverIdle(webhook_secret) ==
    [environ |-> webhook_secret, pc |-> "idle", body |-> <<>>, sig |-> None,
     response |-> NoResponse]

----------------------------------------------------------------------------
(* The state machine *)

NumWorkers == 2

\* The /webhook requests that can be in service at the same time
Workers == 1..NumWorkers

\* A worker that serves no request
WorkerIdle ==
    [pc |-> "idle", request_data |-> <<>>, signature |-> None, data |-> None,
     pending |-> <<>>, calls |-> <<>>, response |-> NoResponse]

\* Requests sent while others are being served
ConcurrentRequests ==
    {[body |-> encode_utf8(json_dumps(ScenarioA)), sig |-> h] : h \in {None, Str(s_abc)}}
    \cup {[body |-> b, sig |-> None] :
             b \in {encode_utf8(json_dumps(Handshake)),
                    encode_utf8(json_dumps(Envelope(Wrapped(Dict(<<<<s_text, Str(s_hola)>>>>)),
                                                    Str(s_TEXT)))),
                    encode_utf8(json_dumps(Dict(<<<<s_message, EmptyDict>>,
                                                  <<s_textEvent, Str(s_hola)>>>>))),
                    s_not_json}}

NoCall == [called |-> FALSE, result |-> FALSE]

\* app.py:14 at import; no request is being served
Init ==
    /\ environ \in Environment
    /\ SECRET_KEY = getenv(environ, <<>>)
    /\ pc = "idle"
    /\ request_data = <<>>
    /\ signature = None
    /\ data = None
    /\ pending = <<>>
    /\ calls = <<>>
    /\ response = NoResponse
    /\ vcall = NoCall
    /\ receiver = ReceiverIdle(None)
    /\ workers = [w \in Workers |-> WorkerIdle]

\* app.py:91-95: a POST /webhook arrives
Receive(r) ==
    /\ pc = "idle"
    /\ request_data' = r.body
    /\ signature' = r.sig
    /\ pc' = "verify"
    /\ UNCHANGED <<workers, receiver, environ, SECRET_KEY, data, pending, calls, response, vcall>>

\* app.py:98-100 with the failure logged and the request let through
Verify_LogOnly ==
    /\ pc = "verify"
    /\ pc' = "parse"
    /\ UNCHANGED <<workers, receiver, environ, SECRET_KEY, request_data, signature, data, pending, calls, response, vcall>>

\* app.py:98-100
Verify ==
    /\ pc = "verify"
    /\ IF verify_signature(request_data, signature)
       THEN pc' = "parse" /\ UNCHANGED response
       ELSE pc' = "done" /\ response' = InvalidSignature
    /\ UNCHANGED <<workers, receiver, environ, SECRET_KEY, request_data, signature, data, pending, calls, vcall>>

\* app.py:103-107; BadRequest from get_json is caught at app.py:185
Parse ==
    /\ pc = "parse"
    /\ LET parsed == get_json(request_data) IN
       IF ~parsed.ok
       THEN pc' = "done" /\ response' = Caught("Exception") /\ UNCHANGED data
       ELSE IF Falsy(parsed.val)
       THEN pc' = "done" /\ response' = NoDataReceived /\ data' = parsed.val
       ELSE pc' = "route" /\ data' = parsed.val /\ UNCHANGED response
    /\ UNCHANGED <<workers, receiver, environ, SECRET_KEY, request_data, signature, pending, calls, vcall>>

\* app.py:116-170 up to the choice of the handler
Route ==
    /\ pc = "route"
    /\ LET r == Router(data) IN
       CASE r.kind = "reply" ->
              pc' = "done" /\ response' = Response(200, r.payload) /\ UNCHANGED pending
         [] r.kind = "call" ->
              pc' = "dispatch" /\ pending' = <<[handler |-> r.handler, payload |-> r.payload]>>
              /\ UNCHANGED response
         [] r.kind = "nothing" ->
              pc' = "ack" /\ UNCHANGED <<pending, response>>
         [] OTHER ->
              pc' = "done" /\ response' = Caught(r.kind) /\ UNCHANGED pending
    /\ UNCHANGED <<workers, receiver, environ, SECRET_KEY, request_data, signature, data, calls, vcall>>

\* app.py:147-151, 164-168: the handler runs; what it raises is caught at
\* app.py:185
Dispatch ==
    /\ pc = "dispatch"
    /\ LET h == Head(pending)
           out == Invoke(h.handler, h.payload)
       IN  /\ calls' = Append(calls, [handler |-> h.handler, payload |-> h.payload,
                                      raised |-> out.raised, text |-> out.text])
           /\ IF out.raised
              THEN pc' = "done" /\ response' = Caught("Exception")
              ELSE pc' = "ack" /\ UNCHANGED response
    /\ pending' = <<>>
    /\ UNCHANGED <<workers, receiver, environ, SECRET_KEY, request_data, signature, data, vcall>>

\* app.py:176-179
Ack ==
    /\ pc = "ack"
    /\ response' = Success
    /\ pc' = "done"
    /\ UNCHANGED <<workers, receiver, environ, SECRET_KEY, request_data, signature, data, pending, calls, vcall>>

\* A direct call verify_signature(c.body, c.sig), app.py:23-60
CallVerify(c) ==
    /\ pc = "idle"
    /\ request_data' = c.body
    /\ signature' = c.sig
    /\ vcall' = [called |-> TRUE, result |-> verify_signature(c.body, c.sig)]
    /\ pc' = "returned"
    /\ UNCHANGED <<workers, receiver, environ, SECRET_KEY, data, pending, calls, response>>

\* The request, or the call, is over: nothing of it is kept
Finish ==
    /\ pc \in {"done", "returned"}
    /\ pc' = "idle"
    /\ request_data' = <<>>
    /\ signature' = None
    /\ data' = None
    /\ pending' = <<>>
    /\ calls' = <<>>
    /\ response' = NoResponse
    /\ vcall' = NoCall
    /\ UNCHANGED <<workers, receiver, environ, SECRET_KEY>>

Next ==
    \/ \E r \in Requests : Receive(r)
    \/ Verify
    \/ Parse
    \/ Route
    \/ Dispatch
    \/ Ack
    \/ \E c \in VerifyCalls : CallVerify(c)
    \/ Finish

Spec == Init /\ [][Next]_vars

\* server_flask.py is a program of its own: its process environment holds
\* RBM_WEBHOOK_SECRET or not, and no request is being served
InitStrict ==
    /\ environ = None
    /\ SECRET_KEY = getenv(environ, <<>>)
    /\ pc = "idle"
    /\ request_data = <<>>
    /\ signature = None
    /\ data = None
    /\ pending = <<>>
    /\ calls = <<>>
    /\ response = NoResponse
    /\ vcall = NoCall
    /\ receiver \in {ReceiverIdle(e) : e \in Environment}
    /\ workers = [w \in Workers |-> WorkerIdle]

\* server_flask.py:80-81: a POST / arrives
ReceiveStrict(r) ==
    /\ receiver.pc = "idle"
    /\ receiver' = [receiver EXCEPT !.pc = "serve", !.body = r.body, !.sig = r.sig]
    /\ UNCHANGED <<workers, environ, SECRET_KEY, pc, request_data, signature, data, pending, calls, response, vcall>>

\* server_flask.py:88-153: webhook_receiver runs to its return, or to the
\* exception Flask answers
ServeStrict ==
    /\ receiver.pc = "serve"
    /\ receiver' = [receiver EXCEPT
                       !.pc = "done",
                       !.response = webhook_receiver(receiver.body, receiver.sig,
                                                     receiver.environ)]
    /\ UNCHANGED <<workers, environ, SECRET_KEY, pc, request_data, signature, data, pending, calls, response, vcall>>

\* The request is over: nothing of it is kept
FinishStrict ==
    /\ receiver.pc = "done"
    /\ receiver' = ReceiverIdle(receiver.environ)
    /\ UNCHANGED <<workers, environ, SECRET_KEY, pc, request_data, signature, data, pending, calls, response, vcall>>

NextStrict ==
    \/ \E r \in StrictRequests : ReceiveStrict(r)
    \/ ServeStrict
    \/ FinishStrict

SpecStrict == InitStrict /\ [][NextStrict]_vars

\* Flask gives every request its own context: `request` and the locals of
\* webhook() belong to one request, and SECRET_KEY is the only module state
\* webhook() reads.  The actions below are the steps of webhook() for the
\* request worker w serves.

\* app.py:91-95
ConcReceive(w, r) ==
    /\ workers[w].pc = "idle"
    /\ workers' = [workers EXCEPT ![w] =
                      [@ EXCEPT !.pc = "verify", !.request_data = r.body, !.signature = r.sig]]
    /\ UNCHANGED <<receiver, environ, SECRET_KEY, pc, request_data, signature, data, pending, calls, response, vcall>>

\* app.py:98-100
ConcVerify(w) ==
    /\ workers[w].pc = "verify"
    /\ workers' = [workers EXCEPT ![w] =
                      IF verify_signature(@.request_data, @.signature)
                      THEN [@ EXCEPT !.pc = "parse"]
                      ELSE [@ EXCEPT !.pc = "done", !.response = InvalidSignature]]
    /\ UNCHANGED <<receiver, environ, SECRET_KEY, pc, request_data, signature, data, pending, calls, response, vcall>>

\* app.py:103-107
ConcParse(w) ==
    /\ workers[w].pc = "parse"
    /\ LET parsed == get_json(workers[w].request_data) IN
       workers' = [workers EXCEPT ![w] =
                      IF ~parsed.ok
                      THEN [@ EXCEPT !.pc = "done", !.response = Caught("Exception")]
                      ELSE IF Falsy(parsed.val)
                      THEN [@ EXCEPT !.pc = "done", !.response = NoDataReceived,
                                     !.data = parsed.val]
                      ELSE [@ EXCEPT !.pc = "route", !.data = parsed.val]]
    /\ UNCHANGED <<receiver, environ, SECRET_KEY, pc, request_data, signature, data, pending, calls, response, vcall>>

\* app.py:116-170 up to the choice of the handler
ConcRoute(w) ==
    /\ workers[w].pc = "route"
    /\ LET r == Router(workers[w].data) IN
       workers' = [workers EXCEPT ![w] =
                      CASE r.kind = "reply" ->
                             [@ EXCEPT !.pc = "done", !.response = Response(200, r.payload)]
                        [] r.kind = "call" ->
                             [@ EXCEPT !.pc = "dispatch",
                                       !.pending = <<[handler |-> r.handler,
                                                      payload |-> r.payload]>>]
                        [] r.kind = "nothing" -> [@ EXCEPT !.pc = "ack"]
                        [] OTHER -> [@ EXCEPT !.pc = "done", !.response = Caught(r.kind)]]
    /\ UNCHANGED <<receiver, environ, SECRET_KEY, pc, request_data, signature, data, pending, calls, response, vcall>>

\* app.py:147-151, 164-168
ConcDispatch(w) ==
    /\ workers[w].pc = "dispatch"
    /\ LET h == Head(workers[w].pending)
           out == Invoke(h.handler, h.payload)
           entry == [handler |-> h.handler, payload |-> h.payload,
                     raised |-> out.raised, text |-> out.text]
       IN  workers' = [workers EXCEPT ![w] =
                          IF out.raised
                          THEN [@ EXCEPT !.pc = "done", !.response = Caught("Exception"),
                                         !.calls = Append(@, entry), !.pending = <<>>]
                          ELSE [@ EXCEPT !.pc = "ack",
                                         !.calls = Append(@, entry), !.pending = <<>>]]
    /\ UNCHANGED <<receiver, environ, SECRET_KEY, pc, request_data, signature, data, pending, calls, response, vcall>>

\* app.py:176-179
ConcAck(w) ==
    /\ workers[w].pc = "ack"
    /\ workers' = [workers EXCEPT ![w] = [@ EXCEPT !.pc = "done", !.response = Success]]
    /\ UNCHANGED <<receiver, environ, SECRET_KEY, pc, request_data, signature, data, pending, calls, response, vcall>>

\* The request is over, but what its handler logged stays with the worker
ConcFinish_KeepCalls(w) ==
    /\ workers[w].pc = "done"
    /\ workers' = [workers EXCEPT ![w] = [WorkerIdle EXCEPT !.calls = workers[w].calls]]
    /\ UNCHANGED <<receiver, environ, SECRET_KEY, pc, request_data, signature, data, pending, calls, response, vcall>>

\* The request is over: nothing of it is kept
ConcFinish(w) ==
    /\ workers[w].pc = "done"
    /\ workers' = [workers EXCEPT ![w] = WorkerIdle]
    /\ UNCHANGED <<receiver, environ, SECRET_KEY, pc, request_data, signature, data, pending, calls, response, vcall>>

NextConcurrent ==
    \E w \in Workers :
        \/ \E r \in ConcurrentRequests : ConcReceive(w, r)
        \/ ConcVerify(w)
        \/ ConcParse(w)
        \/ ConcRoute(w)
        \/ ConcDispatch(w)
        \/ ConcAck(w)
        \/ ConcFinish(w)

SpecConcurrent == Init /\ [][NextConcurrent]_vars

----------------------------------------------------------------------------
(* Properties *)

Enforcing == SECRET_KEY # <<>>

\* A /webhook request is being served or has been answered
InRequest == pc \in {"verify", "parse", "route", "dispatch", "ack", "done"}

\* The request's header is absent or is not mac(SECRET_KEY, body)
Mismatch == Falsy(signature) \/ signature # Str(Mac(SECRET_KEY, request_data))

HandshakeBody == encode_utf8(json_dumps(Handshake))

HandshakeOk == Response(200, Dict(<<<<s_secret, Str(s_xyz)>>>>))

\* C1: in enforcing mode verify_signature(B, mac(S,B)) returns true for every
\* body B, mac(S,B) being the one-line padded base64 of the HMAC-SHA512 of B
\* keyed by the configured secret S.
C1_RoundTrip ==
    (vcall.called /\ Enforcing /\ signature = Str(Mac(SECRET_KEY, request_data)))
        => vcall.result

\* C2: with a secret configured, a /webhook request whose X-Goog-Signature is
\* absent or does not match never gets past the signature check: no handler
\* is chosen or invoked, and its response is 401 {"error":"Invalid signature"}.
C2_AuthFailureTerminal ==
    (InRequest /\ Enforcing /\ Mismatch) =>
        /\ pc \in {"verify", "done"}
        /\ pending = <<>>
        /\ calls = <<>>
        /\ response = (IF pc = "done" THEN InvalidSignature ELSE NoResponse)

\* C2 witness: a message event with a wrong signature was answered 401.
C2_Witness ==
    /\ pc = "done"
    /\ Enforcing
    /\ signature = Str(s_abc)
    /\ request_data = encode_utf8(json_dumps(ScenarioA))
    /\ response = InvalidSignature

\* C3: in enforcing mode verify_signature(B, X) returns false for every
\* signature string X other than mac(S,B).
C3_RejectsOthers ==
    (vcall.called /\ Enforcing /\ signature # Str(Mac(SECRET_KEY, request_data)))
        => ~vcall.result

\* C4: with GOOGLE_WEBHOOK_SECRET absent or empty, verify_signature returns
\* true for every body and every signature, the absent one included, and no
\* /webhook request is answered 401.
C4_Permissive ==
    (environ = None \/ environ = Str(<<>>)) =>
        /\ vcall.called => vcall.result
        /\ pc \in {"parse", "route", "dispatch", "ack"} \/ response.status # 401

\* C4 witness: a direct call without a signature returned true in permissive
\* mode.
C4_Witness ==
    /\ environ = None
    /\ vcall.called
    /\ signature = None
    /\ request_data # <<>>
    /\ vcall.result

\* C5 as stated: the handshake body is answered 200 {"secret":"xyz"} whatever
\* the X-Goog-Signature header, in enforcing and in permissive mode.
C5_HandshakeAnyHeader ==
    (pc = "done" /\ request_data = HandshakeBody) => response = HandshakeOk

\* C5 as amended: the handshake body is answered 200 {"secret":"xyz"} for
\* every header in permissive mode; in enforcing mode the signature check
\* comes first and an absent or mismatching header is answered 401.
C5_HandshakeAfterSignature ==
    (pc = "done" /\ request_data = HandshakeBody) =>
        /\ ~Enforcing => response = HandshakeOk
        /\ (Enforcing /\ Mismatch) => response = InvalidSignature

\* C5 witness: the handshake with a wrong header was answered in permissive
\* mode.
C5_Witness ==
    /\ pc = "done"
    /\ request_data = HandshakeBody
    /\ ~Enforcing
    /\ signature = Str(s_abc)
    /\ response = HandshakeOk

HasHandshakeKeys ==
    data.t = "obj" /\ s_clientToken \in DOMAIN data.v /\ s_secret \in DOMAIN data.v

\* C6: a payload that reaches the router with both a clientToken and a secret
\* key is answered 200 {"secret": <the received value>} and no handler is
\* chosen or invoked, whatever other keys it holds.
C6_HandshakePriority ==
    HasHandshakeKeys =>
        /\ pc \in {"route", "done"}
        /\ pending = <<>>
        /\ calls = <<>>
        /\ (pc = "done" =>
               response = Response(200, Dict(<<<<s_secret, data.v[s_secret]>>>>)))

\* C6 witness: a handshake inside a relay envelope of type TEXT was answered.
C6_Witness ==
    /\ pc = "done"
    /\ HasHandshakeKeys
    /\ s_message \in DOMAIN data.v
    /\ s_attributes \in DOMAIN data.v[s_message].v
    /\ response = HandshakeOk

\* {message:{data: base64(json(I)), attributes:{message_type:"TEXT"}}}
TextEnvelope == [i \in InnerPayloads |-> Envelope(Wrapped(i), Str(s_TEXT))]

\* C7: routing {message:{data: base64(json(I)), attributes:{message_type:
\* "TEXT"}}} invokes the message handler exactly once, with I, and the
\* request is answered 200 {"status":"success"}, for every JSON object I.
C7_RelayRoundTrip ==
    \A i \in InnerPayloads :
        (pc = "done" /\ data = TextEnvelope[i]) =>
            /\ Len(calls) = 1
            /\ calls[1].handler = "handle_message"
            /\ calls[1].payload = i
            /\ response = Success

\* The handler of the first event key present, in the order message,
\* userStatus, receipt, suggestionResponse
FirstKeyHandler(d) ==
    IF s_message \in DOMAIN d.v THEN "handle_message"
    ELSE IF s_userStatus \in DOMAIN d.v THEN "handle_user_status"
    ELSE IF s_receipt \in DOMAIN d.v THEN "handle_receipt"
    ELSE "handle_suggestion_response"

\* C8: a direct payload (no relay envelope, no handshake keys) is handed to
\* the handler of its first key in the order message > userStatus > receipt
\* > suggestionResponse, and no handler runs only when it has none of them.
C8_DirectDispatch ==
    (pc = "done" /\ data \in KeyPayloads) =>
        IF DOMAIN data.v = {} THEN calls = <<>>
        ELSE /\ Len(calls) = 1
             /\ calls[1].handler = FirstKeyHandler(data)
             /\ calls[1].payload = data

\* C9: a request that was dispatched to a handler is answered
\* 200 {"status":"success"}, also when the handler meets an anomaly in the
\* payload's sub-fields.
C9_HandlerFaultsIsolated ==
    (pc = "done" /\ calls # <<>>) => response = Success

\* C10: a verified request whose body is a JSON object with none of message,
\* userStatus, receipt, suggestionResponse (the empty object included, the
\* handshake apart) invokes no handler and is answered 200 {"status":"success"}.
C10_UnknownAcknowledged ==
    (/\ pc = "done"
     /\ response # InvalidSignature
     /\ data.t = "obj"
     /\ DOMAIN data.v \cap EventKeys = {}
     /\ ~HasHandshakeKeys) =>
        /\ calls = <<>>
        /\ response = Success

\* The body of the request is not a JSON object: it did not parse (data is
\* still None) or it parsed to null, a boolean, a number, a string or an array
NotAnObject == data.t # "obj"

\* C11: a verified /webhook request whose body is not valid JSON, or is valid
\* JSON but not an object, is answered 400 with a JSON body holding an error
\* field, and no handler is invoked; it is never answered 200 or 500.
C11_MalformedRejected ==
    (pc = "done" /\ response # InvalidSignature /\ NotAnObject) =>
        /\ response.status = 400
        /\ response.body.t = "obj"
        /\ s_error \in DOMAIN response.body.v
        /\ calls = <<>>

\* The message object of a message event: the value of the message key on
\* the direct path, the decoded inner payload on the relay path
MessageOf(call) == IF call.payload = data THEN data.v[s_message] ELSE call.payload

HoldsText(x, key) == x.t = "obj" /\ key \in DOMAIN x.v /\ x.v[key].t = "str"

\* Nested text first, then flat text, then the sentinel
TextOf(msg) ==
    IF HoldsText(Get(msg, s_textEvent, None), s_text)
    THEN msg.v[s_textEvent].v[s_text].v
    ELSE IF HoldsText(msg, s_text) THEN msg.v[s_text].v
    ELSE s_Mensaje_sin_texto

\* C13: the message handler uses message.textEvent.text when it exists,
\* otherwise message.text, and the sentinel 'Mensaje sin texto' only when
\* neither holds a text, on the direct path and on the relay path.
C13_TextExtractionOrder ==
    (/\ pc = "done"
     /\ calls # <<>>
     /\ calls[1].handler = "handle_message"
     /\ ~calls[1].raised
     /\ MessageOf(calls[1]).t = "obj") =>
        calls[1].text = Str(TextOf(MessageOf(calls[1])))

\* The parsed body is a relay envelope: message.attributes is an object with
\* a message_type key (and the body is not the handshake)
IsRelayEnvelope ==
    /\ data.t = "obj"
    /\ ~HasHandshakeKeys
    /\ Get(data, s_message, None).t = "obj"
    /\ Get(data.v[s_message], s_attributes, None).t = "obj"
    /\ s_message_type \in DOMAIN data.v[s_message].v[s_attributes].v

RelayType == data.v[s_message].v[s_attributes].v[s_message_type]

HandledTypes == {Str(s_SUGGESTION_RESPONSE), Str(s_TEXT), Str(s_message)}

HandlerOfType(mt) ==
    IF mt = Str(s_SUGGESTION_RESPONSE) THEN "handle_suggestion_response"
    ELSE "handle_message"

\* {message:{data: base64(json(I)), attributes:{message_type: mt}}}
RelayEnvelope ==
    [x \in InnerPayloads \X MessageTypes |-> Envelope(Wrapped(x[1]), x[2])]

\* The handler named by message_type was invoked once, with the inner payload
\* of the envelope; a handler that was invoked is the one message_type names
HandledTypeDispatched ==
    /\ calls # <<>> => (Len(calls) = 1 /\ calls[1].handler = HandlerOfType(RelayType))
    /\ \A i \in InnerPayloads :
           data = RelayEnvelope[<<i, RelayType>>] =>
               (Len(calls) = 1 /\ calls[1].payload = i)

\* The envelope's data field is the base64 of a UTF-8 JSON document
DataDecodes ==
    LET decoded_bytes == b64decode(Get(data.v[s_message], s_data, Str(<<>>)))
        text == decode_utf8(decoded_bytes.b)
    IN  decoded_bytes.ok /\ text.ok /\ json_loads(text.s).ok

\* C14 as stated: a relay envelope is handed to the handler its message_type
\* names (SUGGESTION_RESPONSE -> suggestion handler, TEXT or message ->
\* message handler, with the decoded inner payload); for any other
\* message_type no handler is invoked and the request is acknowledged
\* 200 {"status":"success"}, whatever the envelope's data field holds.
C14_RelayTypeMapping ==
    (pc = "done" /\ response # InvalidSignature /\ IsRelayEnvelope) =>
        IF RelayType \in HandledTypes
        THEN HandledTypeDispatched
        ELSE calls = <<>> /\ response = Success

\* C14 as amended: the same mapping; for any other message_type no handler is
\* invoked, and the request is acknowledged 200 {"status":"success"} when the
\* data field decodes to a JSON document: the data field is decoded before
\* message_type is looked at, and one that does not decode is answered with
\* an error, 400 or 500.
C14_RelayTypeMappingDecoded ==
    (pc = "done" /\ response # InvalidSignature /\ IsRelayEnvelope) =>
        IF RelayType \in HandledTypes
        THEN HandledTypeDispatched
        ELSE /\ calls = <<>>
             /\ DataDecodes => response = Success
             /\ ~DataDecodes => response \in {InvalidJSON, InternalServerError}

\* C14 witness: an envelope of type IMAGE around {"text":"hola"} was
\* acknowledged without any handler.
C14_Witness ==
    /\ pc = "done"
    /\ data = Envelope(Wrapped(Dict(<<<<s_text, Str(s_hola)>>>>)), Str(s_IMAGE))
    /\ calls = <<>>
    /\ response = Success

\* What holds of a /webhook request at every moment
PipelineState ==
    /\ Len(calls) <= 1
    /\ (pc \in {"dispatch", "ack"} \/ calls # <<>>) =>
           /\ verify_signature(request_data, signature)
           /\ data.t = "obj"
           /\ ~Falsy(data)
    /\ (response # NoResponse) <=> (pc = "done")
    /\ pc = "done" => response.status \in {200, 400, 401, 500}

\* The position of a request in webhook(): every step moves it forward
Stage ==
    [p \in {"idle", "returned", "verify", "parse", "route", "dispatch", "ack", "done"} |->
        CASE p = "verify" -> 1 [] p = "parse" -> 2 [] p = "route" -> 3
          [] p = "dispatch" -> 4 [] p = "ack" -> 5 [] p = "done" -> 6 [] OTHER -> 0]

\* What holds of every step of a /webhook request: a handler runs at the
\* dispatch stage, before any response; a response, once produced, stays
\* the response until the request is over; a request that is over was
\* answered; and a request being served only moves towards its response
PipelineStep ==
    /\ calls' # calls /\ calls' # <<>> =>
           /\ pc = "dispatch"
           /\ response = NoResponse
           /\ Len(calls') = Len(calls) + 1
    /\ response # NoResponse => (response' = response \/ pc' = "idle")
    /\ (InRequest /\ pc' = "idle") => response # NoResponse
    /\ (InRequest /\ pc # "done") => Stage[pc'] > Stage[pc]

\* C15: per /webhook request exactly one response is produced; at most one
\* handler is invoked; a handler is invoked only after verify_signature
\* returned true and the body parsed to a non-empty JSON object, and always
\* before the response is produced; the response status is one of 200, 400,
\* 401, 500.
C15_PipelineOrdering ==
    /\ []PipelineState
    /\ [][PipelineStep]_vars

\* C15 witness: scenario A was handed to the message handler and then
\* acknowledged.
C15_Witness ==
    /\ pc = "done"
    /\ request_data = encode_utf8(json_dumps(ScenarioA))
    /\ Len(calls) = 1
    /\ calls[1].handler = "handle_message"
    /\ response = Success

\* The body of the request served by the strict variant, parsed
StrictData == get_json(receiver.body)

\* The JSON body is an object with a clientToken key
HasClientTokenKey ==
    StrictData.ok /\ StrictData.val.t = "obj" /\ s_clientToken \in DOMAIN StrictData.val.v

SecretConfigured == ~Falsy(receiver.environ)

\* X-Goog-Signature equals the hex HMAC-SHA256 of the raw body
SignatureMatches ==
    SecretConfigured /\ receiver.sig = Str(HexMac(receiver.environ.v, receiver.body))

\* C16: the strict variant answers 200 only if the JSON body contains a
\* clientToken key, or RBM_WEBHOOK_SECRET is configured and X-Goog-Signature
\* equals the hex HMAC-SHA256 of the raw body; with no clientToken, a missing
\* secret always yields 500 and a missing or mismatched signature always
\* yields 403.
C16_StrictNoPermissiveMode ==
    receiver.pc = "done" =>
        /\ receiver.response.status = 200 => (HasClientTokenKey \/ SignatureMatches)
        /\ (~HasClientTokenKey /\ ~SecretConfigured) => receiver.response.status = 500
        /\ (~HasClientTokenKey /\ SecretConfigured /\ ~SignatureMatches) =>
               receiver.response.status = 403

\* Two requests with the same body and the same signature header, both
\* answered, were classified and answered alike
SameOutcome ==
    \A v, w \in Workers :
        (/\ workers[v].pc = "done"
         /\ workers[w].pc = "done"
         /\ workers[v].request_data = workers[w].request_data
         /\ workers[v].signature = workers[w].signature) =>
            /\ workers[v].response = workers[w].response
            /\ workers[v].calls = workers[w].calls

\* A step of one request changes neither the configuration nor anything of
\* another request
Isolated ==
    /\ SECRET_KEY' = SECRET_KEY
    /\ environ' = environ
    /\ \A v, w \in Workers :
           (v # w /\ workers'[v] # workers[v]) => workers'[w] = workers[w]

====
